---- MODULE Spec2Model ----
(***************************************************************************)
(* Model of fs/crypto/policy.c: encryption policy assignment, reporting,  *)
(* inheritance and the permitted-context check of per-file encryption.    *)
(***************************************************************************)
EXTENDS Integers, FiniteSets, Sequences, TLC

----------------------------------------------------------------------------
(* Bounds of the model *)

\* number of tasks that may run the set-policy ioctl concurrently
NumProcs == 2
\* number of inodes of the filesystem
NumInodes == 3
\* number of distinct values get_random_bytes may produce for a nonce
NumNonces == 2

Procs == 1 .. NumProcs
Inodes == 1 .. NumInodes
Nonces == 1 .. NumNonces

----------------------------------------------------------------------------
(* Program constants *)

ENOENT == -2
EIO == -5
EACCES == -13
EFAULT == -14
EEXIST == -17
ENOTDIR == -20
EINVAL == -22
EROFS == -30
ERANGE == -34
ENOTEMPTY == -39
ENODATA == -61
ENOMEM == -12
ENOKEY == -126

FS_ENCRYPTION_MODE_INVALID == 0
FS_ENCRYPTION_MODE_AES_256_XTS == 1
FS_ENCRYPTION_MODE_AES_256_CTS == 4
FS_ENCRYPTION_MODE_AES_128_CBC == 5
FS_ENCRYPTION_MODE_AES_128_CTS == 6
FS_ENCRYPTION_MODE_PRIVATE == 127

FS_POLICY_FLAGS_PAD_16 == 2
FS_POLICY_FLAG_IV_INO_LBLK_32 == 16
FS_POLICY_FLAGS_VALID == 31
FlagUnknown == 128

FS_ENCRYPTION_CONTEXT_FORMAT_V1 == 1
FS_KEY_DESCRIPTOR_SIZE == 8
FS_KEY_DERIVATION_NONCE_SIZE == 16
FS_AES_256_XTS_KEY_SIZE == 64

\* sizeof(struct fscrypt_context): format, two modes, flags, descriptor, nonce
SizeofCtx == 4 + FS_KEY_DESCRIPTOR_SIZE + FS_KEY_DERIVATION_NONCE_SIZE
\* sizes of stored records that are not a full context
ShortSize == SizeofCtx - FS_KEY_DERIVATION_NONCE_SIZE
OverSize == SizeofCtx + FS_KEY_DESCRIPTOR_SIZE

\* master key descriptors (8 opaque bytes each, compared with memcmp)
Descriptors == {"D1", "D2"}

----------------------------------------------------------------------------
(* u8 arithmetic *)

RECURSIVE BitAnd(_, _)
BitAnd(a, b) ==
    IF a = 0 \/ b = 0 THEN 0
    ELSE (a % 2) * (b % 2) + 2 * BitAnd(a \div 2, b \div 2)

\* a | b on u8
BitOr(a, b) == a + b - BitAnd(a, b)

\* ~m on u8
BitNot(m) == 255 - m

----------------------------------------------------------------------------
(* Records *)

\* struct fscrypt_policy
Policy(v, cm, fm, fl, d) ==
    [version |-> v, contents_encryption_mode |-> cm,
     filenames_encryption_mode |-> fm, flags |-> fl,
     master_key_descriptor |-> d]

\* struct fscrypt_context
Context(fmt, cm, fm, fl, d, n) ==
    [format |-> fmt, contents_encryption_mode |-> cm,
     filenames_encryption_mode |-> fm, flags |-> fl,
     master_key_descriptor |-> d, nonce |-> n]

\* an uninitialised struct fscrypt_context on the stack (never read by the code)
UninitCtx == Context(0, 0, 0, 0, "", 0)

\* an uninitialised struct fscrypt_policy
UninitPolicy == Policy(0, 0, 0, 0, "")

\* the stored context of an inode: absent, or size bytes holding ctx
NoXattr == [present |-> FALSE, size |-> 0, ctx |-> UninitCtx]
Xattr(sz, c) == [present |-> TRUE, size |-> sz, ctx |-> c]

\* inode->i_crypt_info: NULL, or the resolved struct fscrypt_info
NullInfo ==
    [present |-> FALSE, ci_data_mode |-> 0, ci_filename_mode |-> 0,
     ci_flags |-> 0, ci_master_key_descriptor |-> ""]
Info(dm, fm, fl, d) ==
    [present |-> TRUE, ci_data_mode |-> dm, ci_filename_mode |-> fm,
     ci_flags |-> fl, ci_master_key_descriptor |-> d]

\* the policies user space proposes in the set-policy ioctl
Policies ==
    { Policy(0, FS_ENCRYPTION_MODE_AES_256_XTS, FS_ENCRYPTION_MODE_AES_256_CTS, 0, "D1"),
      Policy(0, FS_ENCRYPTION_MODE_PRIVATE, FS_ENCRYPTION_MODE_AES_256_CTS, 0, "D1"),
      Policy(0, FS_ENCRYPTION_MODE_PRIVATE, FS_ENCRYPTION_MODE_AES_256_CTS,
             FS_POLICY_FLAG_IV_INO_LBLK_32, "D1"),
      Policy(0, FS_ENCRYPTION_MODE_AES_256_XTS, FS_ENCRYPTION_MODE_AES_256_CTS,
             FS_POLICY_FLAG_IV_INO_LBLK_32, "D1"),
      Policy(0, FS_ENCRYPTION_MODE_AES_256_XTS, FS_ENCRYPTION_MODE_AES_256_CTS,
             FS_POLICY_FLAGS_PAD_16, "D1"),
      Policy(0, FS_ENCRYPTION_MODE_AES_256_XTS, FS_ENCRYPTION_MODE_AES_128_CTS, 0, "D1"),
      Policy(0, FS_ENCRYPTION_MODE_AES_256_XTS, FS_ENCRYPTION_MODE_AES_256_CTS, 0, "D2"),
      Policy(0, FS_ENCRYPTION_MODE_AES_256_XTS, FS_ENCRYPTION_MODE_AES_256_CTS,
             FlagUnknown, "D1"),
      Policy(1, FS_ENCRYPTION_MODE_AES_256_XTS, FS_ENCRYPTION_MODE_AES_256_CTS, 0, "D1") }

----------------------------------------------------------------------------
(* State *)

VARIABLES
    capable,        \* hie_is_capable(inode->i_sb), the same for every inode
    i_mode,         \* inode -> "none" (not allocated), "dir", "reg", "lnk", "fifo"
    i_dead,         \* inode -> IS_DEADDIR(inode)
    i_parent,       \* inode -> the directory it is linked into, 0 at the root
    xattr,          \* inode -> the context the filesystem stores for it
    i_crypt_info,   \* inode -> inode->i_crypt_info
    pc,             \* task -> its place in fscrypt_ioctl_set_policy
    arg,            \* task -> the inode of filp and the policy copied from user
    ret,            \* task -> the local ret
    ctx,            \* task -> the local ctx filled by get_context
    newctx,         \* task -> the local ctx of create_encryption_context_from_policy
    locked,         \* task -> inode locks it holds (inode_lock minus inode_unlock)
    mnt_writers,    \* task -> write accesses it holds on the mount
    force_iv,       \* what fscrypt_force_iv_ino_lblk_32() returns on this device
    keyring,        \* the descriptors whose master key the keyring holds
    last,           \* the last call of another entry point of policy.c: its result
    cmp,            \* two records and the results of comparing them both ways
    bio             \* the crypto annotation (bi_crypt_ctx) of a block request

vars == <<capable, i_mode, i_dead, i_parent, xattr, i_crypt_info,
          pc, arg, ret, ctx, newctx, locked, mnt_writers,
          force_iv, keyring, last, cmp, bio>>

fsvars == <<capable, i_mode, i_dead, i_parent, i_crypt_info,
            force_iv, keyring, last, cmp, bio>>

\* the variables of the set-policy tasks
taskvars == <<pc, arg, ret, ctx, newctx, locked, mnt_writers>>

----------------------------------------------------------------------------
(* Collaborators of policy.c *)

\* hie_is_capable(sb) ? FS_ENCRYPTION_MODE_PRIVATE : mode, for a valid mode
fscrypt_data_crypt_mode(cap, mode) ==
    IF mode = FS_ENCRYPTION_MODE_INVALID THEN FS_ENCRYPTION_MODE_INVALID
    ELSE IF cap THEN FS_ENCRYPTION_MODE_PRIVATE
    ELSE mode

\* the allow-list of (contents, filenames) mode pairs
fscrypt_valid_enc_modes(cm, fm) ==
    \/ cm = FS_ENCRYPTION_MODE_AES_128_CBC /\ fm = FS_ENCRYPTION_MODE_AES_128_CTS
    \/ cm = FS_ENCRYPTION_MODE_AES_256_XTS /\ fm = FS_ENCRYPTION_MODE_AES_256_CTS
    \/ cm = FS_ENCRYPTION_MODE_PRIVATE /\ fm = FS_ENCRYPTION_MODE_AES_256_CTS

\* s_cop->get_context(inode, &ctx, sizeof(ctx)): bytes read, or an error
get_context(x, ioerr) ==
    IF ioerr THEN EIO
    ELSE IF ~x.present THEN ENODATA
    ELSE IF x.size > SizeofCtx THEN ERANGE
    ELSE x.size

\* s_cop->empty_dir(inode)
empty_dir(i) == \A j \in Inodes : i_mode[j] = "none" \/ i_parent[j] # i

S_ISDIR(i) == i_mode[i] = "dir"
S_ISREG(i) == i_mode[i] = "reg"
\* a type test that takes no inode for a symlink
S_ISLNKNever(i) == FALSE

S_ISLNK(i) == i_mode[i] = "lnk"
\* a check that takes no directory for dead
DeadDirNever(i) == FALSE

IS_DEADDIR(i) == i_dead[i]
IS_ENCRYPTED(i) == xattr[i].present

\* inode_lock() blocks while another task holds the inode's lock
InodeLockFree(p, i) ==
    \A q \in Procs : q = p \/ locked[q] = 0 \/ arg[q].ino # i

----------------------------------------------------------------------------
(* policy.c *)

\* the comparison without the hardware-private substitution
ConsistentWithoutSubstitution(c, policy, cap) ==
    /\ c.contents_encryption_mode = policy.contents_encryption_mode
    /\ c.master_key_descriptor = policy.master_key_descriptor
    /\ c.flags = policy.flags
    /\ c.filenames_encryption_mode = policy.filenames_encryption_mode

\* the comparison without the memcmp of the descriptors
ConsistentWithoutDescriptor(c, policy, cap) ==
    IF /\ c.contents_encryption_mode # policy.contents_encryption_mode
       /\ ~(cap /\ c.contents_encryption_mode = FS_ENCRYPTION_MODE_PRIVATE)
    THEN FALSE
    ELSE /\ c.flags = policy.flags
         /\ c.filenames_encryption_mode = policy.filenames_encryption_mode

\* is_encryption_context_consistent_with_policy(ctx, policy, inode)
is_encryption_context_consistent_with_policy(c, policy, cap) ==
    IF /\ c.contents_encryption_mode # policy.contents_encryption_mode
       /\ ~(cap /\ c.contents_encryption_mode = FS_ENCRYPTION_MODE_PRIVATE)
    THEN FALSE
    ELSE /\ c.master_key_descriptor = policy.master_key_descriptor
         /\ c.flags = policy.flags
         /\ c.filenames_encryption_mode = policy.filenames_encryption_mode

\* the checks of create_encryption_context_from_policy before the context is built
CreateError(policy) ==
    IF ~fscrypt_valid_enc_modes(policy.contents_encryption_mode,
                                policy.filenames_encryption_mode)
    THEN EINVAL
    ELSE IF BitAnd(policy.flags, BitNot(FS_POLICY_FLAGS_VALID)) # 0
    THEN EINVAL
    ELSE IF /\ BitAnd(policy.flags, FS_POLICY_FLAG_IV_INO_LBLK_32) # 0
            /\ policy.contents_encryption_mode # FS_ENCRYPTION_MODE_PRIVATE
    THEN EINVAL
    ELSE 0

\* the context create_encryption_context_from_policy builds
BuildContext(policy, cap, nonce) ==
    Context(FS_ENCRYPTION_CONTEXT_FORMAT_V1,
            fscrypt_data_crypt_mode(cap, policy.contents_encryption_mode),
            policy.filenames_encryption_mode,
            policy.flags,
            policy.master_key_descriptor,
            nonce)

\* any failed read taken for "no context yet"
ContextAbsentOnAnyError(r) == r < 0

\* a test that also takes an inode with a whole context for one without
ContextAbsentOrStored(r) == r = ENODATA \/ r = SizeofCtx

\* ret == -ENODATA: the inode has no context yet
ContextAbsent(r) == r = ENODATA

\* ret == sizeof(ctx) && is_encryption_context_consistent_with_policy(...)
ContextSame(r, c, policy, cap) ==
    /\ r = SizeofCtx
    /\ is_encryption_context_consistent_with_policy(c, policy, cap)

\* ret >= 0 || ret == -ERANGE: some other record is stored
ContextDiffers(r) == r >= 0 \/ r = ERANGE

NoArg == [ino |-> 0, policy |-> UninitPolicy]

\* no call observed yet
NoCall ==
    [op |-> "none", a |-> 0, b |-> 0, ret |-> 0, how |-> "",
     policy |-> UninitPolicy, ctx |-> UninitCtx]

\* the result of a call: its return value, the branch that decided it, and the
\* policy or context it produced
Call(op, a, b, r, how, policy, c) ==
    [op |-> op, a |-> a, b |-> b, ret |-> r, how |-> how,
     policy |-> policy, ctx |-> c]

\* a block request without a crypto annotation
NoBio == [bc_crypt |-> FALSE, bc_aes_256_xts |-> FALSE, bc_key_size |-> 0,
          bc_ino |-> 0, bc_info |-> 0]

NoCmp == [a |-> UninitCtx, b |-> UninitCtx, done |-> FALSE,
          set_ab |-> FALSE, set_ba |-> FALSE,
          info_ab |-> FALSE, info_ba |-> FALSE,
          raw_ab |-> FALSE, raw_ba |-> FALSE]

\* the write access on the mount taken before the caller is checked
SetPolicyEnterUnchecked(p, i, policy, fault, owner, mntok) ==
    /\ pc[p] = "idle"
    /\ i_mode[i] # "none"
    /\ arg' = [arg EXCEPT ![p] = [ino |-> i, policy |-> policy]]
    /\ IF fault THEN
            /\ ret' = [ret EXCEPT ![p] = EFAULT]
            /\ pc' = [pc EXCEPT ![p] = "ret"]
            /\ UNCHANGED mnt_writers
       ELSE IF ~mntok THEN
            /\ ret' = [ret EXCEPT ![p] = EROFS]
            /\ pc' = [pc EXCEPT ![p] = "ret"]
            /\ UNCHANGED mnt_writers
       ELSE
            /\ ret' = [ret EXCEPT ![p] = 0]
            /\ mnt_writers' = [mnt_writers EXCEPT ![p] = @ + 1]
            /\ pc' = [pc EXCEPT ![p] = "lock"]
    /\ UNCHANGED <<fsvars, xattr, ctx, newctx, locked>>

\* fscrypt_ioctl_set_policy up to mnt_want_write_file
SetPolicyEnter(p, i, policy, fault, owner, mntok) ==
    /\ pc[p] = "idle"
    /\ i_mode[i] # "none"
    /\ arg' = [arg EXCEPT ![p] = [ino |-> i, policy |-> policy]]
    /\ IF fault THEN
            /\ ret' = [ret EXCEPT ![p] = EFAULT]
            /\ pc' = [pc EXCEPT ![p] = "ret"]
            /\ UNCHANGED mnt_writers
       ELSE IF ~owner THEN
            /\ ret' = [ret EXCEPT ![p] = EACCES]
            /\ pc' = [pc EXCEPT ![p] = "ret"]
            /\ UNCHANGED mnt_writers
       ELSE IF policy.version # 0 THEN
            /\ ret' = [ret EXCEPT ![p] = EINVAL]
            /\ pc' = [pc EXCEPT ![p] = "ret"]
            /\ UNCHANGED mnt_writers
       ELSE IF ~mntok THEN
            /\ ret' = [ret EXCEPT ![p] = EROFS]
            /\ pc' = [pc EXCEPT ![p] = "ret"]
            /\ UNCHANGED mnt_writers
       ELSE
            /\ ret' = [ret EXCEPT ![p] = 0]
            /\ mnt_writers' = [mnt_writers EXCEPT ![p] = @ + 1]
            /\ pc' = [pc EXCEPT ![p] = "lock"]
    /\ UNCHANGED <<fsvars, xattr, ctx, newctx, locked>>

\* a lock that excludes nobody
InodeLockNoExclusion(p) ==
    /\ pc[p] = "lock"
    /\ locked' = [locked EXCEPT ![p] = @ + 1]
    /\ pc' = [pc EXCEPT ![p] = "get"]
    /\ UNCHANGED <<fsvars, xattr, arg, ret, ctx, newctx, mnt_writers>>

\* inode_lock(inode)
InodeLock(p) ==
    /\ pc[p] = "lock"
    /\ InodeLockFree(p, arg[p].ino)
    /\ locked' = [locked EXCEPT ![p] = @ + 1]
    /\ pc' = [pc EXCEPT ![p] = "get"]
    /\ UNCHANGED <<fsvars, xattr, arg, ret, ctx, newctx, mnt_writers>>

\* ret = get_context(inode, &ctx, sizeof(ctx))
GetContext(p, ioerr) ==
    /\ pc[p] = "get"
    /\ LET x == xattr[arg[p].ino]
           r == get_context(x, ioerr)
       IN  /\ ret' = [ret EXCEPT ![p] = r]
           /\ ctx' = [ctx EXCEPT ![p] = IF r = SizeofCtx THEN x.ctx ELSE UninitCtx]
    /\ pc' = [pc EXCEPT ![p] = "check"]
    /\ UNCHANGED <<fsvars, xattr, arg, newctx, locked, mnt_writers>>

\* the branch on ret: create the context, accept the existing one, or refuse
SetPolicyDecide(p, nonce, seterr) ==
    /\ pc[p] = "check"
    /\ LET i == arg[p].ino
           policy == arg[p].policy
           built == BuildContext(policy, capable, nonce)
       IN  IF ContextAbsent(ret[p]) THEN
                IF ~S_ISDIR(i) THEN
                    /\ ret' = [ret EXCEPT ![p] = ENOTDIR]
                    /\ UNCHANGED <<xattr, newctx>>
                ELSE IF IS_DEADDIR(i) THEN
                    /\ ret' = [ret EXCEPT ![p] = ENOENT]
                    /\ UNCHANGED <<xattr, newctx>>
                ELSE IF ~empty_dir(i) THEN
                    /\ ret' = [ret EXCEPT ![p] = ENOTEMPTY]
                    /\ UNCHANGED <<xattr, newctx>>
                ELSE IF CreateError(policy) # 0 THEN
                    /\ ret' = [ret EXCEPT ![p] = CreateError(policy)]
                    /\ UNCHANGED <<xattr, newctx>>
                ELSE IF seterr THEN
                    /\ ret' = [ret EXCEPT ![p] = EIO]
                    /\ newctx' = [newctx EXCEPT ![p] = built]
                    /\ UNCHANGED xattr
                ELSE
                    /\ ret' = [ret EXCEPT ![p] = 0]
                    /\ newctx' = [newctx EXCEPT ![p] = built]
                    /\ xattr' = [xattr EXCEPT ![i] = Xattr(SizeofCtx, built)]
           ELSE IF ContextSame(ret[p], ctx[p], policy, capable) THEN
                /\ ret' = [ret EXCEPT ![p] = 0]
                /\ UNCHANGED <<xattr, newctx>>
           ELSE IF ContextDiffers(ret[p]) THEN
                /\ ret' = [ret EXCEPT ![p] = EEXIST]
                /\ UNCHANGED <<xattr, newctx>>
           ELSE
                /\ UNCHANGED <<ret, xattr, newctx>>
    /\ pc' = [pc EXCEPT ![p] = "unlock"]
    /\ UNCHANGED <<fsvars, arg, ctx, locked, mnt_writers>>

\* an exit path that forgets inode_unlock
InodeUnlockMissing(p) ==
    /\ pc[p] = "unlock"
    /\ pc' = [pc EXCEPT ![p] = "drop"]
    /\ UNCHANGED <<fsvars, xattr, arg, ret, ctx, newctx, locked, mnt_writers>>

\* inode_unlock(inode)
InodeUnlock(p) ==
    /\ pc[p] = "unlock"
    /\ locked' = [locked EXCEPT ![p] = @ - 1]
    /\ pc' = [pc EXCEPT ![p] = "drop"]
    /\ UNCHANGED <<fsvars, xattr, arg, ret, ctx, newctx, mnt_writers>>

\* mnt_drop_write_file(filp)
MntDropWrite(p) ==
    /\ pc[p] = "drop"
    /\ mnt_writers' = [mnt_writers EXCEPT ![p] = @ - 1]
    /\ pc' = [pc EXCEPT ![p] = "ret"]
    /\ UNCHANGED <<fsvars, xattr, arg, ret, ctx, newctx, locked>>

\* return ret: the ioctl is over and its locals are gone
SetPolicyReturn(p) ==
    /\ pc[p] = "ret"
    /\ pc' = [pc EXCEPT ![p] = "idle"]
    /\ arg' = [arg EXCEPT ![p] = NoArg]
    /\ ret' = [ret EXCEPT ![p] = 0]
    /\ ctx' = [ctx EXCEPT ![p] = UninitCtx]
    /\ newctx' = [newctx EXCEPT ![p] = UninitCtx]
    /\ UNCHANGED <<fsvars, xattr, locked, mnt_writers>>

----------------------------------------------------------------------------
(* fscrypt_ioctl_get_policy *)

\* the content mode replaced for every inode, not only for directories
ReportedPolicyAnyInode(c, isdir) ==
    Policy(0,
           IF c.contents_encryption_mode # FS_ENCRYPTION_MODE_INVALID
           THEN FS_ENCRYPTION_MODE_AES_256_XTS
           ELSE c.contents_encryption_mode,
           c.filenames_encryption_mode,
           c.flags,
           c.master_key_descriptor)

\* the content mode reported as it is stored, directory or not
ReportedPolicyAsStored(c, isdir) ==
    Policy(0, c.contents_encryption_mode, c.filenames_encryption_mode, c.flags,
           c.master_key_descriptor)

\* the policy built from a context for reporting
ReportedPolicy(c, isdir) ==
    Policy(0,
           IF isdir /\ c.contents_encryption_mode # FS_ENCRYPTION_MODE_INVALID
           THEN FS_ENCRYPTION_MODE_AES_256_XTS
           ELSE c.contents_encryption_mode,
           c.filenames_encryption_mode,
           c.flags,
           c.master_key_descriptor)

\* fscrypt_ioctl_get_policy(filp, arg): the return value and the policy copied out
GetPolicyResult(i, ioerr, fault) ==
    LET x == xattr[i]
        res == get_context(x, ioerr)
    IN  IF ~IS_ENCRYPTED(i) THEN [ret |-> ENODATA, policy |-> UninitPolicy]
        ELSE IF res < 0 /\ res # ERANGE THEN [ret |-> res, policy |-> UninitPolicy]
        ELSE IF res # SizeofCtx THEN [ret |-> EINVAL, policy |-> UninitPolicy]
        ELSE IF x.ctx.format # FS_ENCRYPTION_CONTEXT_FORMAT_V1
        THEN [ret |-> EINVAL, policy |-> UninitPolicy]
        ELSE IF fault THEN [ret |-> EFAULT, policy |-> UninitPolicy]
        ELSE [ret |-> 0, policy |-> ReportedPolicy(x.ctx, S_ISDIR(i))]

GetPolicy(i, ioerr, fault) ==
    /\ i_mode[i] # "none"
    /\ LET r == GetPolicyResult(i, ioerr, fault)
       IN  last' = Call("get_policy", i, 0, r.ret, "", r.policy,
                        IF r.ret = 0 THEN xattr[i].ctx ELSE UninitCtx)
    /\ UNCHANGED <<capable, i_mode, i_dead, i_parent, i_crypt_info, xattr,
                   force_iv, keyring, cmp, bio, taskvars>>

----------------------------------------------------------------------------
(* fscrypt_has_permitted_context *)

\* fscrypt_get_encryption_info(inode): 0 with i_crypt_info set up when the key
\* is there, 0 with i_crypt_info left NULL when it is not, or an error
fscrypt_get_encryption_info(ci, x, ioerr, fail) ==
    LET res == get_context(x, ioerr)
    IN  IF ci.present THEN [res |-> 0, ci |-> ci]
        ELSE IF res < 0 THEN [res |-> res, ci |-> NullInfo]
        ELSE IF res # SizeofCtx THEN [res |-> EINVAL, ci |-> NullInfo]
        ELSE IF x.ctx.format # FS_ENCRYPTION_CONTEXT_FORMAT_V1
        THEN [res |-> EINVAL, ci |-> NullInfo]
        ELSE IF BitAnd(x.ctx.flags, BitNot(FS_POLICY_FLAGS_VALID)) # 0
        THEN [res |-> EINVAL, ci |-> NullInfo]
        ELSE IF fail THEN [res |-> ENOMEM, ci |-> NullInfo]
        ELSE IF x.ctx.master_key_descriptor \notin keyring
        THEN [res |-> 0, ci |-> NullInfo]
        ELSE [res |-> 0,
              ci |-> Info(fscrypt_data_crypt_mode(capable,
                                                  x.ctx.contents_encryption_mode),
                          x.ctx.filenames_encryption_mode,
                          x.ctx.flags,
                          x.ctx.master_key_descriptor)]

\* the flags compared with IV_INO_LBLK_32 masked on the parent's side only
InfoSameOneSidedMask(pci, cci) ==
    /\ pci.ci_master_key_descriptor = cci.ci_master_key_descriptor
    /\ pci.ci_data_mode = cci.ci_data_mode
    /\ pci.ci_filename_mode = cci.ci_filename_mode
    /\ BitAnd(pci.ci_flags, BitNot(FS_POLICY_FLAG_IV_INO_LBLK_32)) = cci.ci_flags

\* the comparison of the two fscrypt_info structs
InfoSame(pci, cci) ==
    /\ pci.ci_master_key_descriptor = cci.ci_master_key_descriptor
    /\ pci.ci_data_mode = cci.ci_data_mode
    /\ pci.ci_filename_mode = cci.ci_filename_mode
    /\ BitAnd(pci.ci_flags, BitNot(FS_POLICY_FLAG_IV_INO_LBLK_32))
         = BitAnd(cci.ci_flags, BitNot(FS_POLICY_FLAG_IV_INO_LBLK_32))

\* the flags of the stored contexts compared without the mask
RawSameExactFlags(pctx, cctx, cap) ==
    /\ pctx.master_key_descriptor = cctx.master_key_descriptor
    /\ fscrypt_data_crypt_mode(cap, pctx.contents_encryption_mode)
         = fscrypt_data_crypt_mode(cap, cctx.contents_encryption_mode)
    /\ pctx.filenames_encryption_mode = cctx.filenames_encryption_mode
    /\ pctx.flags = cctx.flags

\* the comparison of the two stored contexts, each content mode taken through
\* fscrypt_data_crypt_mode first
RawSame(pctx, cctx, cap) ==
    /\ pctx.master_key_descriptor = cctx.master_key_descriptor
    /\ fscrypt_data_crypt_mode(cap, pctx.contents_encryption_mode)
         = fscrypt_data_crypt_mode(cap, cctx.contents_encryption_mode)
    /\ pctx.filenames_encryption_mode = cctx.filenames_encryption_mode
    /\ BitAnd(pctx.flags, BitNot(FS_POLICY_FLAG_IV_INO_LBLK_32))
         = BitAnd(cctx.flags, BitNot(FS_POLICY_FLAG_IV_INO_LBLK_32))

\* memcmp(...) == 0 && ... as the int the function returns
BoolInt(b) == IF b THEN 1 ELSE 0

\* what the check returns when resolving an inode's crypto info failed
OnResolveErrorPermit(res) == 1

\* if (res) return 0
OnResolveError(res) == 0

\* if (res != sizeof(ctx)) return 0
OnShortRead(res) == 0

\* the collaborator call that fails during one call of the check, if any: the
\* read or the key setup in resolving the parent ("pio", "pfail") or the child
\* ("cio", "cfail"), or the read of a stored context ("prawio", "crawio")
CheckFailures == {"none", "pio", "pfail", "cio", "cfail", "prawio", "crawio"}

\* the same for fscrypt_inherit_context: resolving the parent, set_context
\* ("set"), resolving the child
InheritFailures == {"none", "pio", "pfail", "set", "cio", "cfail"}

\* fscrypt_has_permitted_context(parent, child): the return value, the branch
\* that decided it, and i_crypt_info of both inodes afterwards
PermittedContext(parent, child, e) ==
    LET same == [ret |-> 0, how |-> "", pci |-> i_crypt_info[parent],
                 cci |-> i_crypt_info[child]]
        rp == fscrypt_get_encryption_info(i_crypt_info[parent], xattr[parent],
                                          e = "pio", e = "pfail")
        rc == fscrypt_get_encryption_info(i_crypt_info[child], xattr[child],
                                          e = "cio", e = "cfail")
        pr == get_context(xattr[parent], e = "prawio")
        cr == get_context(xattr[child], e = "crawio")
    IN  IF ~S_ISREG(child) /\ ~S_ISDIR(child) /\ ~S_ISLNK(child)
        THEN [same EXCEPT !.ret = 1, !.how = "type"]
        ELSE IF ~IS_ENCRYPTED(parent)
        THEN [same EXCEPT !.ret = 1, !.how = "parent-plain"]
        ELSE IF ~IS_ENCRYPTED(child)
        THEN [same EXCEPT !.ret = 0, !.how = "child-plain"]
        ELSE IF rp.res # 0
        THEN [same EXCEPT !.ret = OnResolveError(rp.res), !.how = "parent-error"]
        ELSE IF rc.res # 0
        THEN [same EXCEPT !.ret = OnResolveError(rc.res), !.how = "child-error",
                          !.pci = rp.ci]
        ELSE IF rp.ci.present /\ rc.ci.present
        THEN [ret |-> BoolInt(InfoSame(rp.ci, rc.ci)), how |-> "info",
              pci |-> rp.ci, cci |-> rc.ci]
        ELSE IF pr # SizeofCtx
        THEN [ret |-> OnShortRead(pr), how |-> "parent-raw-error",
              pci |-> rp.ci, cci |-> rc.ci]
        ELSE IF cr # SizeofCtx
        THEN [ret |-> OnShortRead(cr), how |-> "child-raw-error",
              pci |-> rp.ci, cci |-> rc.ci]
        ELSE [ret |-> BoolInt(RawSame(xattr[parent].ctx, xattr[child].ctx, capable)),
              how |-> "raw", pci |-> rp.ci, cci |-> rc.ci]

HasPermittedContext(parent, child, e) ==
    /\ parent # child
    /\ S_ISDIR(parent)
    /\ i_mode[child] # "none"
    /\ LET r == PermittedContext(parent, child, e)
       IN  /\ e = "none" \/ r # PermittedContext(parent, child, "none")
           /\ i_crypt_info' = [i_crypt_info EXCEPT ![parent] = r.pci,
                                                   ![child] = r.cci]
           /\ last' = Call("permitted", parent, child, r.ret, r.how,
                           UninitPolicy, UninitCtx)
    /\ UNCHANGED <<capable, i_mode, i_dead, i_parent, xattr,
                   force_iv, keyring, cmp, bio, taskvars>>

----------------------------------------------------------------------------
(* fscrypt_inherit_context *)

\* fscrypt_force_iv_ino_lblk_32(): CONFIG_MTK_EMMC_HW_CQ and an SD/MMC boot device
fscrypt_force_iv_ino_lblk_32 == force_iv

\* a context built with IV_INO_LBLK_32 forced whatever the parent's content mode
InheritedContextForcedAnyMode(ci, nonce) ==
    Context(FS_ENCRYPTION_CONTEXT_FORMAT_V1,
            ci.ci_data_mode,
            ci.ci_filename_mode,
            IF fscrypt_force_iv_ino_lblk_32
            THEN BitOr(ci.ci_flags, FS_POLICY_FLAG_IV_INO_LBLK_32)
            ELSE ci.ci_flags,
            ci.ci_master_key_descriptor,
            nonce)

\* the context built for the child from the parent's fscrypt_info
InheritedContext(ci, nonce) ==
    Context(FS_ENCRYPTION_CONTEXT_FORMAT_V1,
            ci.ci_data_mode,
            ci.ci_filename_mode,
            IF /\ ci.ci_data_mode = FS_ENCRYPTION_MODE_PRIVATE
               /\ fscrypt_force_iv_ino_lblk_32
            THEN BitOr(ci.ci_flags, FS_POLICY_FLAG_IV_INO_LBLK_32)
            ELSE ci.ci_flags,
            ci.ci_master_key_descriptor,
            nonce)

\* fscrypt_inherit_context(parent, child, fs_data, preload) for a child that has
\* no context and no i_crypt_info yet: the return value, the branch, whether the
\* context was stored, and i_crypt_info of both inodes afterwards
InheritContext(parent, preload, nonce, e) ==
    LET rp == fscrypt_get_encryption_info(i_crypt_info[parent], xattr[parent],
                                          e = "pio", e = "pfail")
        built == InheritedContext(rp.ci, nonce)
        rc == fscrypt_get_encryption_info(NullInfo, Xattr(SizeofCtx, built),
                                          e = "cio", e = "cfail")
        none == [ret |-> 0, how |-> "", stored |-> FALSE, ctx |-> UninitCtx,
                 pci |-> i_crypt_info[parent], cci |-> NullInfo]
    IN  IF rp.res < 0
        THEN [none EXCEPT !.ret = rp.res, !.how = "parent-error"]
        ELSE IF ~rp.ci.present
        THEN [none EXCEPT !.ret = ENOKEY, !.how = "no-key"]
        ELSE IF e = "set"
        THEN [none EXCEPT !.ret = EIO, !.how = "set-error", !.pci = rp.ci]
        ELSE IF ~preload
        THEN [ret |-> 0, how |-> "stored", stored |-> TRUE, ctx |-> built,
              pci |-> rp.ci, cci |-> NullInfo]
        ELSE [ret |-> rc.res,
              how |-> IF rc.res = 0 THEN "preloaded" ELSE "preload-error",
              stored |-> TRUE, ctx |-> built, pci |-> rp.ci, cci |-> rc.ci]

\* the file types a filesystem encrypts
EncryptedType(type) == type \in {"reg", "dir", "lnk"}

\* the lowest free inode number
FreeInode(i) ==
    /\ i_mode[i] = "none"
    /\ \A j \in Inodes : j < i => i_mode[j] # "none"

\* no task holds the inode's lock
InodeUnlocked(i) == \A q \in Procs : locked[q] = 0 \/ arg[q].ino # i

\* the filesystem creates an inode of the given type in directory parent; in an
\* encrypted directory it calls fscrypt_inherit_context for a regular file, a
\* directory or a symlink, and drops the new inode when that fails
Create(parent, child, type, preload, nonce, e) ==
    /\ S_ISDIR(parent) /\ ~IS_DEADDIR(parent)
    /\ InodeUnlocked(parent)
    /\ FreeInode(child)
    /\ IF IS_ENCRYPTED(parent) /\ EncryptedType(type)
       THEN LET r == InheritContext(parent, preload, nonce, e)
            IN  /\ e = "none" \/ r # InheritContext(parent, preload, nonce, "none")
                /\ IF r.ret = 0
                   THEN /\ i_mode' = [i_mode EXCEPT ![child] = type]
                        /\ i_parent' = [i_parent EXCEPT ![child] = parent]
                        /\ xattr' = [xattr EXCEPT ![child] = Xattr(SizeofCtx, r.ctx)]
                        /\ i_crypt_info' = [i_crypt_info EXCEPT ![parent] = r.pci,
                                                                ![child] = r.cci]
                   ELSE /\ i_crypt_info' = [i_crypt_info EXCEPT ![parent] = r.pci]
                        /\ UNCHANGED <<i_mode, i_parent, xattr>>
       ELSE /\ e = "none" /\ ~preload
            /\ i_mode' = [i_mode EXCEPT ![child] = type]
            /\ i_parent' = [i_parent EXCEPT ![child] = parent]
            /\ UNCHANGED <<xattr, i_crypt_info>>
    /\ UNCHANGED <<capable, i_dead, force_iv, keyring, last, cmp, bio, taskvars>>

\* an inheritance that takes the child's context back when the preload fails
InheritRollback(parent, child, preload, nonce, e) ==
    /\ S_ISDIR(parent)
    /\ child # parent /\ EncryptedType(i_mode[child])
    /\ xattr[child] = NoXattr /\ ~i_crypt_info[child].present
    /\ LET r == InheritContext(parent, preload, nonce, e)
       IN  /\ xattr' = IF r.stored /\ r.ret = 0
                       THEN [xattr EXCEPT ![child] = Xattr(SizeofCtx, r.ctx)]
                       ELSE xattr
           /\ i_crypt_info' = [i_crypt_info EXCEPT ![parent] = r.pci,
                                                   ![child] = r.cci]
           /\ last' = Call("inherit", parent, child, r.ret, r.how, UninitPolicy, r.ctx)
    /\ UNCHANGED <<capable, i_mode, i_dead, i_parent,
                   force_iv, keyring, cmp, bio, taskvars>>

\* fscrypt_inherit_context(parent, child, fs_data, preload) called by the
\* filesystem for an inode it has just allocated in directory parent
Inherit(parent, child, preload, nonce, e) ==
    /\ S_ISDIR(parent)
    /\ child # parent /\ EncryptedType(i_mode[child])
    /\ xattr[child] = NoXattr /\ ~i_crypt_info[child].present
    /\ LET r == InheritContext(parent, preload, nonce, e)
       IN  /\ xattr' = IF r.stored
                       THEN [xattr EXCEPT ![child] = Xattr(SizeofCtx, r.ctx)]
                       ELSE xattr
           /\ i_crypt_info' = [i_crypt_info EXCEPT ![parent] = r.pci,
                                                   ![child] = r.cci]
           /\ last' = Call("inherit", parent, child, r.ret, r.how, UninitPolicy, r.ctx)
    /\ UNCHANGED <<capable, i_mode, i_dead, i_parent,
                   force_iv, keyring, cmp, bio, taskvars>>

\* the filesystem opens or looks up the inode and calls
\* fscrypt_get_encryption_info(inode)
ResolveInfo(i, e) ==
    /\ i_mode[i] # "none"
    /\ IS_ENCRYPTED(i)
    /\ LET r == fscrypt_get_encryption_info(i_crypt_info[i], xattr[i],
                                            e = "pio", e = "pfail")
       IN  /\ r.ci # i_crypt_info[i]
           /\ i_crypt_info' = [i_crypt_info EXCEPT ![i] = r.ci]
    /\ UNCHANGED <<capable, i_mode, i_dead, i_parent, xattr,
                   force_iv, keyring, last, cmp, bio, taskvars>>

\* user space adds a master key to the keyring
AddKey(d) ==
    /\ d \notin keyring
    /\ keyring' = keyring \cup {d}
    /\ UNCHANGED <<capable, i_mode, i_dead, i_parent, xattr, i_crypt_info,
                   force_iv, last, cmp, bio, taskvars>>

\* user space removes a master key from the keyring
RemoveKey(d) ==
    /\ d \in keyring
    /\ keyring' = keyring \ {d}
    /\ UNCHANGED <<capable, i_mode, i_dead, i_parent, xattr, i_crypt_info,
                   force_iv, last, cmp, bio, taskvars>>

\* the inode is evicted from memory and read in again: its i_crypt_info is gone
EvictInode(i) ==
    /\ i_crypt_info[i].present
    /\ \A q \in Procs : arg[q].ino # i
    /\ i_crypt_info' = [i_crypt_info EXCEPT ![i] = NullInfo]
    /\ UNCHANGED <<capable, i_mode, i_dead, i_parent, xattr,
                   force_iv, keyring, last, cmp, bio, taskvars>>

----------------------------------------------------------------------------
(* fscrypt_set_bio_ctx, fscrypt_is_hw_encrypt, fscrypt_is_sw_encrypt *)

fscrypt_is_hw_encrypt(i) ==
    /\ S_ISREG(i)
    /\ i_crypt_info[i].present
    /\ i_crypt_info[i].ci_data_mode = FS_ENCRYPTION_MODE_PRIVATE

fscrypt_is_sw_encrypt(i) ==
    /\ S_ISREG(i)
    /\ i_crypt_info[i].present
    /\ i_crypt_info[i].ci_data_mode # FS_ENCRYPTION_MODE_INVALID
    /\ i_crypt_info[i].ci_data_mode # FS_ENCRYPTION_MODE_PRIVATE

\* a binder that leaves the annotation of the request as it finds it
ClearedKeepsCrypt(b) == b

\* bio_bcf_clear(bio, BC_CRYPT)
Cleared(b) == [b EXCEPT !.bc_crypt = FALSE]

\* fscrypt_set_bio_ctx(inode, bio): the return value, the branch taken and the
\* annotation of the request afterwards; nullarg says that inode or bio is NULL,
\* infoempty that fscrypt_crypt_info_act(ci, BIO_BC_INFO_GET) returns NULL
SetBioCtxResult(i, nullarg, infoempty) ==
    LET ci == i_crypt_info[i]
    IN  IF nullarg
        THEN [ret |-> ENOENT, how |-> "null", bio |-> bio]
        ELSE IF S_ISREG(i) /\ ci.present /\ ci.ci_data_mode = FS_ENCRYPTION_MODE_PRIVATE
        THEN [ret |-> 0, how |-> "bound",
              bio |-> [bc_crypt |-> TRUE, bc_aes_256_xts |-> TRUE,
                       bc_key_size |-> FS_AES_256_XTS_KEY_SIZE,
                       bc_ino |-> i,
                       bc_info |-> IF infoempty THEN 0 ELSE i]]
        ELSE [ret |-> ENOENT, how |-> "cleared", bio |-> Cleared(bio)]

SetBioCtx(i, nullarg, infoempty) ==
    /\ i_mode[i] # "none"
    /\ LET r == SetBioCtxResult(i, nullarg, infoempty)
       IN  /\ bio' = r.bio
           /\ last' = Call("set_bio_ctx", i, 0, r.ret, r.how, UninitPolicy, UninitCtx)
    /\ UNCHANGED <<capable, i_mode, i_dead, i_parent, xattr, i_crypt_info,
                   force_iv, keyring, cmp, taskvars>>

----------------------------------------------------------------------------
(* Specification: concurrent set-policy ioctls on one directory *)

\* records a mounted filesystem may already hold for the directory
InitialXattrs ==
    { NoXattr,
      Xattr(SizeofCtx,
            Context(FS_ENCRYPTION_CONTEXT_FORMAT_V1, FS_ENCRYPTION_MODE_PRIVATE,
                    FS_ENCRYPTION_MODE_AES_256_CTS, FS_POLICY_FLAG_IV_INO_LBLK_32,
                    "D1", 1)),
      Xattr(ShortSize, UninitCtx),
      Xattr(OverSize, UninitCtx) }

Init ==
    /\ capable \in BOOLEAN
    /\ i_mode = [i \in Inodes |-> IF i = 1 THEN "dir" ELSE "none"]
    /\ i_dead = [i \in Inodes |-> FALSE]
    /\ i_parent = [i \in Inodes |-> 0]
    /\ xattr \in {[i \in Inodes |-> IF i = 1 THEN x ELSE NoXattr] : x \in InitialXattrs}
    /\ i_crypt_info = [i \in Inodes |-> NullInfo]
    /\ pc = [p \in Procs |-> "idle"]
    /\ arg = [p \in Procs |-> NoArg]
    /\ ret = [p \in Procs |-> 0]
    /\ ctx = [p \in Procs |-> UninitCtx]
    /\ newctx = [p \in Procs |-> UninitCtx]
    /\ locked = [p \in Procs |-> 0]
    /\ mnt_writers = [p \in Procs |-> 0]
    /\ force_iv \in BOOLEAN
    /\ keyring = {}
    /\ last = NoCall
    /\ cmp = NoCmp
    /\ bio = NoBio

SetPolicyStep(p) ==
    \/ \E i \in Inodes, policy \in Policies, fault, owner, mntok \in BOOLEAN :
          SetPolicyEnter(p, i, policy, fault, owner, mntok)
    \/ InodeLock(p)
    \/ \E ioerr \in BOOLEAN : GetContext(p, ioerr)
    \/ \E nonce \in Nonces, seterr \in BOOLEAN : SetPolicyDecide(p, nonce, seterr)
    \/ InodeUnlock(p)
    \/ MntDropWrite(p)
    \/ SetPolicyReturn(p)

\* the task of the sequential specification
FirstProc == CHOOSE p \in Procs : \A q \in Procs : p <= q

Next ==
    \/ SetPolicyStep(FirstProc)
    \/ \E i \in Inodes, ioerr, fault \in BOOLEAN : GetPolicy(i, ioerr, fault)

Spec == Init /\ [][Next]_vars

----------------------------------------------------------------------------
(* Specification: tasks racing to set the policy of one empty directory *)

RacePolicies ==
    { Policy(0, FS_ENCRYPTION_MODE_AES_256_XTS, FS_ENCRYPTION_MODE_AES_256_CTS, 0, "D1"),
      Policy(0, FS_ENCRYPTION_MODE_AES_256_XTS, FS_ENCRYPTION_MODE_AES_256_CTS, 0, "D2"),
      Policy(0, FS_ENCRYPTION_MODE_AES_256_XTS, FS_ENCRYPTION_MODE_AES_128_CTS, 0, "D1") }

InitRace ==
    /\ Init
    /\ xattr = [i \in Inodes |-> NoXattr]

\* the directory the tasks race on: the one Init allocates
RaceDir == CHOOSE i \in Inodes : i_mode[i] = "dir"

\* the storage works and the mount is writable; the callers may lack ownership
RaceStep(p) ==
    \/ \E policy \in RacePolicies, owner \in BOOLEAN :
          SetPolicyEnter(p, RaceDir, policy, FALSE, owner, TRUE)
    \/ InodeLock(p)
    \/ GetContext(p, FALSE)
    \/ \E nonce \in Nonces : SetPolicyDecide(p, nonce, FALSE)
    \/ InodeUnlock(p)
    \/ MntDropWrite(p)
    \/ SetPolicyReturn(p)

NextRace == \E p \in Procs : RaceStep(p)

SpecRace == InitRace /\ [][NextRace]_vars

----------------------------------------------------------------------------
(* Specification: a directory tree that grows under an encryption policy *)

\* the policies the directories at the root were given
TreePolicies ==
    { Policy(0, FS_ENCRYPTION_MODE_AES_256_XTS, FS_ENCRYPTION_MODE_AES_256_CTS, 0, "D1"),
      Policy(0, FS_ENCRYPTION_MODE_PRIVATE, FS_ENCRYPTION_MODE_AES_256_CTS,
             FS_POLICY_FLAG_IV_INO_LBLK_32, "D1"),
      Policy(0, FS_ENCRYPTION_MODE_AES_128_CBC, FS_ENCRYPTION_MODE_AES_128_CTS, 0, "D1") }

\* the nonce drawn in this specification
TreeNonce == CHOOSE n \in Nonces : \A m \in Nonces : n <= m

\* the root directory has no policy or one that set-policy stored
RootXattrs(cap) ==
    {NoXattr} \cup
    {Xattr(SizeofCtx, BuildContext(policy, cap, TreeNonce)) : policy \in TreePolicies}

InitTree ==
    /\ capable \in BOOLEAN
    /\ force_iv \in BOOLEAN
    /\ i_mode = [i \in Inodes |-> IF i = 1 THEN "dir" ELSE "none"]
    /\ i_dead = [i \in Inodes |-> FALSE]
    /\ i_parent = [i \in Inodes |-> 0]
    /\ \E x \in RootXattrs(capable) :
          xattr = [i \in Inodes |-> IF i = 1 THEN x ELSE NoXattr]
    /\ i_crypt_info = [i \in Inodes |-> NullInfo]
    /\ pc = [p \in Procs |-> "idle"]
    /\ arg = [p \in Procs |-> NoArg]
    /\ ret = [p \in Procs |-> 0]
    /\ ctx = [p \in Procs |-> UninitCtx]
    /\ newctx = [p \in Procs |-> UninitCtx]
    /\ locked = [p \in Procs |-> 0]
    /\ mnt_writers = [p \in Procs |-> 0]
    /\ keyring = {}
    /\ last = NoCall
    /\ cmp = NoCmp
    /\ bio = NoBio

\* the master keys user space adds and removes
TreeKeys == {policy.master_key_descriptor : policy \in TreePolicies}

NextTree ==
    \/ \E parent \in {i \in Inodes : S_ISDIR(i)}, child \in {i \in Inodes : FreeInode(i)},
          type \in {"dir", "reg", "lnk", "fifo"},
          preload \in BOOLEAN, e \in InheritFailures :
          Create(parent, child, type, preload, TreeNonce, e)
    \/ \E i \in Inodes : ResolveInfo(i, "none")
    \/ \E d \in TreeKeys : AddKey(d)
    \/ \E d \in TreeKeys : RemoveKey(d)
    \/ \E i \in Inodes : EvictInode(i)

SpecTree == InitTree /\ [][NextTree]_vars

----------------------------------------------------------------------------
(* Specification: the permitted-context check on a directory and another inode *)

\* what the filesystem may hold for an encrypted inode: a context set-policy
\* stored, one fscrypt_inherit_context stored under such a directory, or a
\* record that is not a whole context
CheckXattrs(cap) ==
    { Xattr(ShortSize, UninitCtx), Xattr(OverSize, UninitCtx) } \cup
    { Xattr(SizeofCtx, BuildContext(policy, cap, TreeNonce)) : policy \in TreePolicies } \cup
    { Xattr(SizeofCtx,
            InheritedContext(
                Info(fscrypt_data_crypt_mode(cap, policy.contents_encryption_mode),
                     policy.filenames_encryption_mode, policy.flags,
                     policy.master_key_descriptor),
                TreeNonce)) : policy \in TreePolicies }

\* the inode checked against the directory
CheckChild == CHOOSE i \in Inodes : i # FirstProc /\ \A j \in Inodes : j = FirstProc \/ i <= j

InitCheck ==
    /\ capable \in BOOLEAN
    /\ force_iv \in BOOLEAN
    /\ \E type \in {"dir", "reg", "lnk", "fifo"} :
          i_mode = [i \in Inodes |-> IF i = FirstProc THEN "dir"
                                     ELSE IF i = CheckChild THEN type ELSE "none"]
    /\ i_dead = [i \in Inodes |-> FALSE]
    /\ i_parent = [i \in Inodes |-> 0]
    /\ \E x1, x2 \in {NoXattr} \cup CheckXattrs(capable) :
          xattr = [i \in Inodes |-> IF i = FirstProc THEN x1
                                    ELSE IF i = CheckChild THEN x2 ELSE NoXattr]
    /\ i_crypt_info = [i \in Inodes |-> NullInfo]
    /\ pc = [p \in Procs |-> "idle"]
    /\ arg = [p \in Procs |-> NoArg]
    /\ ret = [p \in Procs |-> 0]
    /\ ctx = [p \in Procs |-> UninitCtx]
    /\ newctx = [p \in Procs |-> UninitCtx]
    /\ locked = [p \in Procs |-> 0]
    /\ mnt_writers = [p \in Procs |-> 0]
    /\ keyring = {}
    /\ last = NoCall
    /\ cmp = NoCmp
    /\ bio = NoBio

NextCheck ==
    \/ \E parent \in {i \in Inodes : S_ISDIR(i)},
          child \in {i \in Inodes : i_mode[i] # "none"}, e \in CheckFailures :
          HasPermittedContext(parent, child, e)
    \/ \E d \in TreeKeys : AddKey(d)
    \/ \E d \in TreeKeys : RemoveKey(d)
    \/ \E i \in Inodes : EvictInode(i)

SpecCheck == InitCheck /\ [][NextCheck]_vars

----------------------------------------------------------------------------
(* Specification: get-policy on a directory and on another inode *)

NextReport == \E i \in Inodes, ioerr, fault \in BOOLEAN : GetPolicy(i, ioerr, fault)

SpecReport == InitCheck /\ [][NextReport]_vars

----------------------------------------------------------------------------
(* Specification: block requests bound to the inodes of a directory *)

NextBio ==
    \/ \E i \in Inodes, nullarg, infoempty \in BOOLEAN : SetBioCtx(i, nullarg, infoempty)
    \/ \E i \in Inodes : ResolveInfo(i, "none")
    \/ \E d \in TreeKeys : AddKey(d)
    \/ \E i \in Inodes : EvictInode(i)

SpecBio == InitCheck /\ [][NextBio]_vars

----------------------------------------------------------------------------
(* Specification: new inodes inheriting the context of their directory *)

\* the policies a directory may have got from set-policy
InheritPolicies ==
    TreePolicies \cup
    { Policy(0, FS_ENCRYPTION_MODE_AES_256_XTS, FS_ENCRYPTION_MODE_AES_256_CTS,
             FS_POLICY_FLAGS_PAD_16, "D2") }

InheritKeys == {policy.master_key_descriptor : policy \in InheritPolicies}

\* what the filesystem may hold for the directory: nothing, a record that is
\* not a whole context, a context that set-policy stored, or one that the
\* directory inherited itself
InheritXattrs(cap) ==
    { NoXattr, Xattr(ShortSize, UninitCtx) } \cup
    { Xattr(SizeofCtx, BuildContext(policy, cap, TreeNonce)) : policy \in InheritPolicies } \cup
    { Xattr(SizeofCtx,
            InheritedContext(
                Info(fscrypt_data_crypt_mode(cap, policy.contents_encryption_mode),
                     policy.filenames_encryption_mode, policy.flags,
                     policy.master_key_descriptor),
                TreeNonce)) : policy \in InheritPolicies }

\* a directory and, below it, a new inode that has no context yet
InitInherit ==
    /\ capable \in BOOLEAN
    /\ force_iv \in BOOLEAN
    /\ \E type \in {"dir", "reg", "lnk"} :
          i_mode = [i \in Inodes |-> IF i = FirstProc THEN "dir"
                                     ELSE IF i = CheckChild THEN type ELSE "none"]
    /\ i_dead = [i \in Inodes |-> FALSE]
    /\ i_parent = [i \in Inodes |-> IF i = CheckChild THEN FirstProc ELSE 0]
    /\ \E x \in InheritXattrs(capable) :
          xattr = [i \in Inodes |-> IF i = FirstProc THEN x ELSE NoXattr]
    /\ i_crypt_info = [i \in Inodes |-> NullInfo]
    /\ pc = [p \in Procs |-> "idle"]
    /\ arg = [p \in Procs |-> NoArg]
    /\ ret = [p \in Procs |-> 0]
    /\ ctx = [p \in Procs |-> UninitCtx]
    /\ newctx = [p \in Procs |-> UninitCtx]
    /\ locked = [p \in Procs |-> 0]
    /\ mnt_writers = [p \in Procs |-> 0]
    /\ keyring = {}
    /\ last = NoCall
    /\ cmp = NoCmp
    /\ bio = NoBio

NextInherit ==
    \/ \E parent, child \in Inodes, preload \in BOOLEAN, e \in InheritFailures :
          Inherit(parent, child, preload, TreeNonce, e)
    \/ \E d \in InheritKeys : AddKey(d)
    \/ \E d \in InheritKeys : RemoveKey(d)
    \/ \E i \in Inodes : EvictInode(i)

SpecInherit == InitInherit /\ [][NextInherit]_vars

----------------------------------------------------------------------------
(* Specification: set-policy and creations in one directory tree *)

\* a root directory without a policy, nothing below it
InitLife ==
    /\ capable \in BOOLEAN
    /\ force_iv \in BOOLEAN
    /\ i_mode = [i \in Inodes |-> IF i = FirstProc THEN "dir" ELSE "none"]
    /\ i_dead = [i \in Inodes |-> FALSE]
    /\ i_parent = [i \in Inodes |-> 0]
    /\ xattr = [i \in Inodes |-> NoXattr]
    /\ i_crypt_info = [i \in Inodes |-> NullInfo]
    /\ pc = [p \in Procs |-> "idle"]
    /\ arg = [p \in Procs |-> NoArg]
    /\ ret = [p \in Procs |-> 0]
    /\ ctx = [p \in Procs |-> UninitCtx]
    /\ newctx = [p \in Procs |-> UninitCtx]
    /\ locked = [p \in Procs |-> 0]
    /\ mnt_writers = [p \in Procs |-> 0]
    /\ keyring = {}
    /\ last = NoCall
    /\ cmp = NoCmp
    /\ bio = NoBio

\* the policies user space asks for: they differ in both modes
LifePolicies ==
    { Policy(0, FS_ENCRYPTION_MODE_AES_256_XTS, FS_ENCRYPTION_MODE_AES_256_CTS, 0, "D1"),
      Policy(0, FS_ENCRYPTION_MODE_AES_128_CBC, FS_ENCRYPTION_MODE_AES_128_CTS, 0, "D1") }

\* set-policy by the owner on an inode of the tree
LifeStep(p) ==
    \/ \E i \in {j \in Inodes : i_mode[j] # "none"}, policy \in LifePolicies :
          SetPolicyEnter(p, i, policy, FALSE, TRUE, TRUE)
    \/ InodeLock(p)
    \/ GetContext(p, FALSE)
    \/ SetPolicyDecide(p, TreeNonce, FALSE)
    \/ InodeUnlock(p)
    \/ MntDropWrite(p)
    \/ SetPolicyReturn(p)

NextLife ==
    \/ LifeStep(FirstProc)
    \/ \E parent \in {i \in Inodes : S_ISDIR(i)}, child \in {i \in Inodes : FreeInode(i)},
          type \in {"dir", "reg", "lnk", "fifo"} :
          Create(parent, child, type, FALSE, TreeNonce, "none")
    \/ \E d \in TreeKeys : AddKey(d)
    \/ \E d \in TreeKeys : RemoveKey(d)

SpecLife == InitLife /\ [][NextLife]_vars

----------------------------------------------------------------------------
(* Specification: the comparisons applied to two records, both ways round *)

\* the policy-bearing records compared
CompareRecords ==
    { Context(FS_ENCRYPTION_CONTEXT_FORMAT_V1, cm, fm, fl, d, TreeNonce) :
        cm \in {FS_ENCRYPTION_MODE_AES_256_XTS, FS_ENCRYPTION_MODE_AES_128_CBC,
                FS_ENCRYPTION_MODE_PRIVATE},
        fm \in {FS_ENCRYPTION_MODE_AES_256_CTS, FS_ENCRYPTION_MODE_AES_128_CTS},
        fl \in {0, FS_POLICY_FLAGS_PAD_16, FS_POLICY_FLAG_IV_INO_LBLK_32},
        d \in Descriptors }

\* the record as the policy user space proposes
AsPolicy(c) ==
    Policy(0, c.contents_encryption_mode, c.filenames_encryption_mode, c.flags,
           c.master_key_descriptor)

\* the record as the fscrypt_info of an inode
AsInfo(c) ==
    Info(c.contents_encryption_mode, c.filenames_encryption_mode, c.flags,
         c.master_key_descriptor)

InitCompare ==
    /\ Init
    /\ xattr = [i \in Inodes |-> NoXattr]
    /\ ~force_iv

\* two records are handed to the three comparisons
DrawRecords(a, b) ==
    /\ ~cmp.done
    /\ cmp' = [a |-> a, b |-> b, done |-> TRUE,
               set_ab |-> is_encryption_context_consistent_with_policy(
                              a, AsPolicy(b), capable),
               set_ba |-> is_encryption_context_consistent_with_policy(
                              b, AsPolicy(a), capable),
               info_ab |-> InfoSame(AsInfo(a), AsInfo(b)),
               info_ba |-> InfoSame(AsInfo(b), AsInfo(a)),
               raw_ab |-> RawSame(a, b, capable),
               raw_ba |-> RawSame(b, a, capable)]
    /\ UNCHANGED <<capable, i_mode, i_dead, i_parent, xattr, i_crypt_info,
                   force_iv, keyring, last, bio, taskvars>>

NextCompare == \E a, b \in CompareRecords : DrawRecords(a, b)

SpecCompare == InitCompare /\ [][NextCompare]_vars

----------------------------------------------------------------------------
(* Specification: the first policy of an inode that has no context *)

\* a valid policy and one create_encryption_context_from_policy rejects
FirstPolicies ==
    { Policy(0, FS_ENCRYPTION_MODE_AES_256_XTS, FS_ENCRYPTION_MODE_AES_256_CTS, 0, "D1"),
      Policy(0, FS_ENCRYPTION_MODE_AES_256_XTS, FS_ENCRYPTION_MODE_AES_128_CTS, 0, "D1") }

\* the inode below the root directory, when there is one
FirstChild == CHOOSE i \in Inodes : i # FirstProc /\ \A j \in Inodes : j = FirstProc \/ i <= j

\* the root directory, and below it nothing, a regular file, a directory, or a
\* directory that was removed while open (dead, and no longer in the root)
InitFirst ==
    /\ capable \in BOOLEAN
    /\ force_iv = FALSE
    /\ \E type \in {"none", "reg", "dir", "dead"} :
          /\ i_mode = [i \in Inodes |-> IF i = FirstProc THEN "dir"
                                        ELSE IF i = FirstChild /\ type # "none"
                                        THEN (IF type = "dead" THEN "dir" ELSE type)
                                        ELSE "none"]
          /\ i_dead = [i \in Inodes |-> i = FirstChild /\ type = "dead"]
          /\ i_parent = [i \in Inodes |-> IF i = FirstChild /\ type \in {"reg", "dir"}
                                          THEN FirstProc ELSE 0]
    /\ xattr = [i \in Inodes |-> NoXattr]
    /\ i_crypt_info = [i \in Inodes |-> NullInfo]
    /\ pc = [p \in Procs |-> "idle"]
    /\ arg = [p \in Procs |-> NoArg]
    /\ ret = [p \in Procs |-> 0]
    /\ ctx = [p \in Procs |-> UninitCtx]
    /\ newctx = [p \in Procs |-> UninitCtx]
    /\ locked = [p \in Procs |-> 0]
    /\ mnt_writers = [p \in Procs |-> 0]
    /\ keyring = {}
    /\ last = NoCall
    /\ cmp = NoCmp
    /\ bio = NoBio

\* the caller is the owner and the mount is writable
FirstStep(p) ==
    \/ \E i \in Inodes, policy \in FirstPolicies :
          SetPolicyEnter(p, i, policy, FALSE, TRUE, TRUE)
    \/ InodeLock(p)
    \/ \E ioerr \in BOOLEAN : GetContext(p, ioerr)
    \/ \E nonce \in Nonces, seterr \in BOOLEAN : SetPolicyDecide(p, nonce, seterr)
    \/ InodeUnlock(p)
    \/ MntDropWrite(p)
    \/ SetPolicyReturn(p)

NextFirst == FirstStep(FirstProc)

SpecFirst == InitFirst /\ [][NextFirst]_vars

----------------------------------------------------------------------------
(* Properties of set-policy *)

\* task p's call got past the caller checks and mnt_want_write_file
Passed(p) ==
    /\ pc[p] # "idle"
    /\ arg[p].policy.version = 0
    /\ pc[p] = "ret" => ret[p] \notin {EFAULT, EACCES, EROFS}

\* the step of task p that branches on the result of get_context
DecideStep(p) == pc[p] = "check" /\ pc'[p] = "unlock"

\* the flags with the IV_INO_LBLK_32 bit masked out
MaskedFlags(f) == BitAnd(f, BitNot(FS_POLICY_FLAG_IV_INO_LBLK_32))

\* context c and the policy differ in a field the conflict rule names
PolicyDiffers(c, policy, cap) ==
    \/ c.master_key_descriptor # policy.master_key_descriptor
    \/ c.filenames_encryption_mode # policy.filenames_encryption_mode
    \/ MaskedFlags(c.flags) # MaskedFlags(policy.flags)
    \/ /\ c.contents_encryption_mode # policy.contents_encryption_mode
       /\ ~(cap /\ c.contents_encryption_mode = FS_ENCRYPTION_MODE_PRIVATE)

\* C1: a stored context is never changed by set-policy: the context is written
\* only by a call whose get_context returned -ENODATA, and a call that passed
\* the caller checks and read an existing record (the read itself not failing)
\* ends in 0 without a write or in -EEXIST, which is then what it returns.
C1_StoredContextImmutable ==
    [][\A p \in Procs :
        /\ \A i \in Inodes : xattr[i].present => xattr'[i] = xattr[i]
        /\ (DecideStep(p) /\ xattr' # xattr) => ret[p] = ENODATA
        /\ (DecideStep(p) /\ xattr[arg[p].ino].present /\ ret[p] # EIO)
              => /\ ret'[p] \in {0, EEXIST}
                 /\ xattr' = xattr
        /\ pc[p] \in {"unlock", "drop"} => ret'[p] = ret[p]
      ]_vars

\* C1 witness: a call that found a full context returned -EEXIST
C1_Witness ==
    \E p \in Procs :
        /\ pc[p] = "ret" /\ ret[p] = EEXIST
        /\ ctx[p] # UninitCtx
        /\ xattr[arg[p].ino] = Xattr(SizeofCtx, ctx[p])

\* C2 as stated: when the racing calls have all passed the caller checks and
\* have their return values, each has returned 0 with a policy consistent with
\* the stored context, or -EEXIST.
C2_AllOthersAlreadyExists ==
    (\A q \in Procs : pc[q] = "ret" /\ Passed(q)) =>
        \A p \in Procs :
            LET x == xattr[arg[p].ino]
            IN  \/ /\ ret[p] = 0
                   /\ x.present /\ x.size = SizeofCtx
                   /\ is_encryption_context_consistent_with_policy(
                          x.ctx, arg[p].policy, capable)
                \/ ret[p] = EEXIST

\* task p's call wrote the context it built
Wrote(p) ==
    /\ pc[p] \in {"unlock", "drop", "ret"}
    /\ newctx[p] # UninitCtx
    /\ ret[p] = 0

\* C2 (amended): with the inode lock, racing calls on an empty directory without
\* a context write at most one context, the stored context is the one that call
\* built, a call returning 0 proposed a policy consistent with the stored
\* context, and every other call that passed the caller checks returns -EEXIST,
\* or -EINVAL when it found no context yet and its own policy was rejected by
\* create_encryption_context_from_policy.
C2_RaceAtomic ==
    /\ [](\A p \in Procs :
            /\ Wrote(p) => xattr[arg[p].ino] = Xattr(SizeofCtx, newctx[p])
            /\ \A q \in Procs : (Wrote(p) /\ Wrote(q)) => p = q
            /\ (pc[p] = "ret" /\ Passed(p)) =>
                 LET x == xattr[arg[p].ino]
                 IN  \/ /\ ret[p] = 0
                        /\ x.present /\ x.size = SizeofCtx
                        /\ is_encryption_context_consistent_with_policy(
                               x.ctx, arg[p].policy, capable)
                     \/ /\ ret[p] = EEXIST
                        /\ x.present
                        /\ newctx[p] = UninitCtx
                     \/ /\ ret[p] = EINVAL
                        /\ CreateError(arg[p].policy) = EINVAL
                        /\ ctx[p] = UninitCtx
                        /\ newctx[p] = UninitCtx)
    /\ [][\A i \in Inodes : xattr'[i] # xattr[i] => ~xattr[i].present]_vars

\* C2 witness: one racing call wrote the context, another found it and got -EEXIST
C2_Witness ==
    \E p, q \in Procs :
        /\ p # q
        /\ pc[p] = "ret" /\ Wrote(p)
        /\ pc[q] = "ret" /\ ret[q] = EEXIST
        /\ arg[q].ino = arg[p].ino
        /\ ctx[q] = newctx[p]

\* C3: a valid policy set on an empty live directory without a context is
\* stored (the call returns 0 unless set_context fails), and a call that passed
\* the caller checks with a valid policy whose context is the stored one returns
\* 0 (unless its read fails) and leaves the stored context, nonce included, as it
\* was; on hardware-capable and other filesystems alike.
C3_SetTwiceIdempotent ==
    /\ [](\A p \in Procs :
            LET x == xattr[arg[p].ino]
                policy == arg[p].policy
            IN  ( /\ pc[p] = "ret" /\ Passed(p)
                  /\ CreateError(policy) = 0
                  /\ x.present /\ x.size = SizeofCtx
                  /\ x.ctx = BuildContext(policy, capable, x.ctx.nonce)
                  /\ ret[p] # EIO )
                => ret[p] = 0)
    /\ [][\A p \in Procs :
            LET i == arg[p].ino
                policy == arg[p].policy
            IN  /\ (DecideStep(p) /\ ret[p] = SizeofCtx) => xattr' = xattr
                /\ ( /\ DecideStep(p) /\ ret[p] = ENODATA
                     /\ S_ISDIR(i) /\ ~IS_DEADDIR(i) /\ empty_dir(i)
                     /\ CreateError(policy) = 0 )
                   => \/ ret'[p] = EIO /\ xattr' = xattr
                      \/ /\ ret'[p] = 0
                         /\ \E n \in Nonces :
                              xattr'[i] = Xattr(SizeofCtx,
                                                BuildContext(policy, capable, n))
      ]_vars

\* C3 witness: on a hardware-capable filesystem a call proposing AES-256-XTS
\* found the context built from its policy and returned 0
C3_Witness ==
    \E p \in Procs :
        LET x == xattr[arg[p].ino]
            policy == arg[p].policy
        IN  /\ pc[p] = "ret" /\ Passed(p) /\ ret[p] = 0
            /\ capable
            /\ policy.contents_encryption_mode = FS_ENCRYPTION_MODE_AES_256_XTS
            /\ CreateError(policy) = 0
            /\ ctx[p] # UninitCtx
            /\ x = Xattr(SizeofCtx, ctx[p])
            /\ ctx[p] = BuildContext(policy, capable, ctx[p].nonce)

\* C4: when the inode has a stored record and the proposed policy differs from
\* it in the descriptor, the filename mode, the flags without IV_INO_LBLK_32, or
\* the content mode other than by the hardware-private substitution, or the
\* record is not of the full size (short, or oversized: -ERANGE), the call gets
\* -EEXIST and writes nothing.
C4_ConflictIsAlreadyExists ==
    [][\A p \in Procs :
        LET x == xattr[arg[p].ino]
        IN  ( /\ DecideStep(p)
              /\ x.present
              /\ ret[p] # EIO
              /\ \/ x.size # SizeofCtx
                 \/ PolicyDiffers(x.ctx, arg[p].policy, capable) )
            => /\ ret'[p] = EEXIST
               /\ xattr' = xattr
               /\ newctx' = newctx
      ]_vars

\* C4 witness: a call whose policy differs from the full stored context only in
\* the descriptor returned -EEXIST
C4_Witness ==
    \E p \in Procs :
        /\ pc[p] = "ret" /\ ret[p] = EEXIST
        /\ ctx[p] # UninitCtx
        /\ xattr[arg[p].ino] = Xattr(SizeofCtx, ctx[p])
        /\ ctx[p].master_key_descriptor # arg[p].policy.master_key_descriptor
        /\ ctx[p].flags = arg[p].policy.flags
        /\ ctx[p].filenames_encryption_mode = arg[p].policy.filenames_encryption_mode

\* C5 as stated: a full stored context that agrees with the proposed policy on
\* the descriptor, both modes and every flag but IV_INO_LBLK_32 makes set-policy
\* return 0 without a write.
C5_MaskedFlagIsSamePolicy ==
    [][\A p \in Procs :
        LET x == xattr[arg[p].ino]
            policy == arg[p].policy
        IN  ( /\ DecideStep(p)
              /\ ret[p] = SizeofCtx
              /\ x.ctx.master_key_descriptor = policy.master_key_descriptor
              /\ x.ctx.filenames_encryption_mode = policy.filenames_encryption_mode
              /\ x.ctx.contents_encryption_mode = policy.contents_encryption_mode
              /\ MaskedFlags(x.ctx.flags) = MaskedFlags(policy.flags) )
            => /\ ret'[p] = 0
               /\ xattr' = xattr
      ]_vars

\* C8: a task holds the inode lock and its write access on the mount only
\* inside the call; both are back to zero when the call has its return value,
\* whatever that is, and neither count ever goes below zero.
C8_LockAndMountReleased ==
    \A p \in Procs :
        /\ locked[p] \in {0, 1}
        /\ mnt_writers[p] \in {0, 1}
        /\ locked[p] = 1 => pc[p] \in {"get", "check", "unlock"}
        /\ mnt_writers[p] = 1 => pc[p] \in {"lock", "get", "check", "unlock", "drop"}
        /\ pc[p] \in {"idle", "ret"} => (locked[p] = 0 /\ mnt_writers[p] = 0)

\* C8 witness: a call that took the lock returns an error
C8_Witness ==
    \E p \in Procs :
        /\ pc[p] = "ret" /\ Passed(p)
        /\ ret[p] = EEXIST
        /\ locked[p] = 0 /\ mnt_writers[p] = 0

----------------------------------------------------------------------------
(* Properties of get-policy *)

\* the last call was get-policy on the inode task p wrote its context to, and
\* it returned 0
ReadBack(p) ==
    /\ Wrote(p)
    /\ last.op = "get_policy"
    /\ last.a = arg[p].ino
    /\ last.ret = 0

\* C9 as stated: get-policy on the context that
\* create_encryption_context_from_policy built from a valid policy reports that
\* policy: descriptor, content mode, filename mode and flags.
C9_RoundTripExact ==
    \A p \in Procs : ReadBack(p) => last.policy = arg[p].policy

\* C9 (amended): get-policy decodes the context built from the valid policy and
\* reports version 0 and the policy's descriptor, filename mode and flags; the
\* content mode it reports is AES-256-XTS whatever the policy declared, because
\* set-policy builds contexts on directories only; the nonce is not reported.
C9_RoundTrip ==
    \A p \in Procs :
        ReadBack(p) =>
            /\ CreateError(arg[p].policy) = 0
            /\ last.ctx = newctx[p]
            /\ last.policy.version = 0
            /\ last.policy.master_key_descriptor = arg[p].policy.master_key_descriptor
            /\ last.policy.filenames_encryption_mode
                 = arg[p].policy.filenames_encryption_mode
            /\ last.policy.flags = arg[p].policy.flags
            /\ last.policy.contents_encryption_mode = FS_ENCRYPTION_MODE_AES_256_XTS
            /\ DOMAIN last.policy = DOMAIN arg[p].policy

\* C9 witness: a policy declaring the hardware-private mode was stored and read
\* back as AES-256-XTS
C9_Witness ==
    \E p \in Procs :
        /\ ReadBack(p)
        /\ arg[p].policy.contents_encryption_mode = FS_ENCRYPTION_MODE_PRIVATE
        /\ arg[p].policy.flags = FS_POLICY_FLAG_IV_INO_LBLK_32
        /\ last.policy.contents_encryption_mode = FS_ENCRYPTION_MODE_AES_256_XTS

----------------------------------------------------------------------------
(* Properties of the permitted-context check *)

\* directory a is above inode d in the tree
RECURSIVE Ancestor(_, _)
Ancestor(a, d) ==
    /\ i_parent[d] # 0
    /\ (i_parent[d] = a \/ Ancestor(a, i_parent[d]))

\* C6: below an encrypted directory every inode that carries a context got it
\* from fscrypt_inherit_context, and the check of any directory of the chain
\* against any inode below it, adjacent or not, returns 1, by comparing the
\* fscrypt_infos or the stored contexts, also when the inherited context
\* carries IV_INO_LBLK_32 and the directory's does not.
C6_InheritedChainPermitted ==
    \A a, d \in Inodes :
        (Ancestor(a, d) /\ IS_ENCRYPTED(a) /\ IS_ENCRYPTED(d)) =>
            LET r == PermittedContext(a, d, "none")
            IN  /\ r.ret = 1
                /\ r.how \in {"info", "raw"}

\* C6 witness: a chain of three, the lowest context with IV_INO_LBLK_32 injected
\* and the root's without it, root and lowest compared on the stored contexts
C6_Witness ==
    \E a, m, d \in Inodes :
        /\ i_parent[m] = a /\ i_parent[d] = m
        /\ IS_ENCRYPTED(a) /\ IS_ENCRYPTED(m) /\ IS_ENCRYPTED(d)
        /\ xattr[a].ctx.flags = 0
        /\ xattr[d].ctx.flags = FS_POLICY_FLAG_IV_INO_LBLK_32
        /\ PermittedContext(a, d, "none").how = "raw"
        /\ PermittedContext(a, d, "none").ret = 1

\* the branches of the check taken on an error or a record that is not whole
ErrorBranches ==
    {"parent-error", "child-error", "parent-raw-error", "child-raw-error"}

\* C7: the check returns 0 or 1, never an error value; it returns 0 whenever
\* resolving either inode's crypto info failed or a stored context did not come
\* back whole, and so whenever both inodes are encrypted, the child is of an
\* encrypted type, and either stored record is not of the full size.
C7_FailsClosed ==
    last.op = "permitted" =>
        /\ last.ret \in {0, 1}
        /\ last.how \in ErrorBranches => last.ret = 0
        /\ ( /\ EncryptedType(i_mode[last.b])
             /\ IS_ENCRYPTED(last.a) /\ IS_ENCRYPTED(last.b)
             /\ \/ xattr[last.a].size # SizeofCtx
                \/ xattr[last.b].size # SizeofCtx )
           => (last.ret = 0 /\ last.how \in ErrorBranches)

\* C7 witness: the child's stored record is oversized, resolving its crypto
\* info failed, and the check returned 0
C7_Witness ==
    /\ last.op = "permitted"
    /\ last.how = "child-error"
    /\ xattr[last.a].size = SizeofCtx
    /\ xattr[last.b].size = OverSize
    /\ last.ret = 0

----------------------------------------------------------------------------
(* Properties of the comparisons *)

\* C10 as stated: each comparison gives the same result with its two records
\* exchanged.
C10_ComparisonSymmetric ==
    cmp.done =>
        /\ cmp.set_ab = cmp.set_ba
        /\ cmp.info_ab = cmp.info_ba
        /\ cmp.raw_ab = cmp.raw_ba

\* the two records agree in everything but the content mode
OnlyModeDiffers(a, b) ==
    /\ a.master_key_descriptor = b.master_key_descriptor
    /\ a.filenames_encryption_mode = b.filenames_encryption_mode
    /\ a.flags = b.flags
    /\ a.contents_encryption_mode # b.contents_encryption_mode

\* C10 (amended): the parent-versus-child comparisons of the permitted-context
\* check are symmetric; the context-versus-policy comparison of set-policy is
\* symmetric except on a hardware-capable filesystem for two records that differ
\* only in the content mode, one of them hardware-private: there the stored
\* hardware-private context is consistent with the other policy, never the
\* reverse.
C10_SymmetricButSubstitution ==
    cmp.done =>
        /\ cmp.info_ab = cmp.info_ba
        /\ cmp.raw_ab = cmp.raw_ba
        /\ cmp.set_ab # cmp.set_ba
             <=> /\ capable
                 /\ OnlyModeDiffers(cmp.a, cmp.b)
                 /\ FS_ENCRYPTION_MODE_PRIVATE
                      \in {cmp.a.contents_encryption_mode,
                           cmp.b.contents_encryption_mode}
        /\ (cmp.set_ab /\ ~cmp.set_ba)
             => cmp.a.contents_encryption_mode = FS_ENCRYPTION_MODE_PRIVATE

\* C10 witness: on a hardware-capable filesystem a stored hardware-private
\* context is consistent with an AES-256-XTS policy, the AES-256-XTS context is
\* not consistent with the hardware-private policy, and the two stored contexts
\* compare the same either way round
C10_Witness ==
    /\ cmp.done /\ capable
    /\ cmp.a.contents_encryption_mode = FS_ENCRYPTION_MODE_PRIVATE
    /\ cmp.b.contents_encryption_mode = FS_ENCRYPTION_MODE_AES_256_XTS
    /\ cmp.set_ab /\ ~cmp.set_ba
    /\ cmp.raw_ab /\ cmp.raw_ba

----------------------------------------------------------------------------
(* Properties of the preconditions of set-policy *)

\* C11: when get_context reported no context, a target that is not a directory
\* gets -ENOTDIR, a dead directory -ENOENT, a live directory that is not empty
\* -ENOTEMPTY, whatever the proposed policy; nothing is written, that value is
\* what the call returns, and the target has no context afterwards.
C11_FirstAssignmentPreconditions ==
    /\ [][\A p \in Procs :
            LET i == arg[p].ino
            IN  (DecideStep(p) /\ ret[p] = ENODATA) =>
                  /\ i_mode[i] # "dir" => (ret'[p] = ENOTDIR /\ xattr' = xattr)
                  /\ (i_mode[i] = "dir" /\ i_dead[i])
                       => (ret'[p] = ENOENT /\ xattr' = xattr)
                  /\ (i_mode[i] = "dir" /\ ~i_dead[i]
                      /\ \E j \in Inodes : i_mode[j] # "none" /\ i_parent[j] = i)
                       => (ret'[p] = ENOTEMPTY /\ xattr' = xattr)
      ]_vars
    /\ [](\A p \in Procs :
            (pc[p] = "ret" /\ ret[p] \in {ENOTDIR, ENOENT, ENOTEMPTY})
                => /\ ~xattr[arg[p].ino].present
                   /\ newctx[p] = UninitCtx)
    /\ [][\A p \in Procs : pc[p] \in {"unlock", "drop"} => ret'[p] = ret[p]]_vars

\* C11 witness: set-policy on a directory that is not empty returned -ENOTEMPTY
\* for a policy that is not even valid
C11_Witness ==
    \E p \in Procs :
        /\ pc[p] = "ret" /\ ret[p] = ENOTEMPTY
        /\ CreateError(arg[p].policy) = EINVAL
        /\ i_mode[arg[p].ino] = "dir"
        /\ \E j \in Inodes : i_mode[j] = "reg" /\ i_parent[j] = arg[p].ino
        /\ ~xattr[arg[p].ino].present

\* C16: a caller that is not the owner gets -EACCES, and the owner proposing a
\* version other than 0 gets -EINVAL, in the first step of the call: no write
\* access on the mount is taken, the inode lock is not taken, and the stored
\* context is neither read into ctx nor written, whatever the inode stores.
C16_CallerChecksFirst ==
    /\ [][\A p \in Procs, i \in Inodes, policy \in Policies, mntok \in BOOLEAN :
            /\ SetPolicyEnter(p, i, policy, FALSE, FALSE, mntok)
                 => (ret'[p] = EACCES /\ pc'[p] = "ret")
            /\ (policy.version # 0 /\ SetPolicyEnter(p, i, policy, FALSE, TRUE, mntok))
                 => (ret'[p] = EINVAL /\ pc'[p] = "ret")
            /\ (pc[p] = "idle" /\ pc'[p] = "ret")
                 => /\ locked' = locked /\ mnt_writers' = mnt_writers
                    /\ xattr' = xattr /\ ctx' = ctx /\ newctx' = newctx
      ]_vars
    /\ [](\A p \in Procs :
            (pc[p] = "ret" /\ (ret[p] = EACCES \/ arg[p].policy.version # 0))
                => /\ locked[p] = 0 /\ mnt_writers[p] = 0
                   /\ ctx[p] = UninitCtx /\ newctx[p] = UninitCtx
                   /\ ret[p] \in {EFAULT, EACCES, EINVAL})
    /\ [][\A p \in Procs : pc[p] = "ret" => pc'[p] \in {"ret", "idle"}]_vars

\* C16 witness: a caller that is not the owner was refused on an inode storing
\* the very context its policy would build
C16_Witness ==
    \E p \in Procs :
        LET x == xattr[arg[p].ino]
        IN  /\ pc[p] = "ret" /\ ret[p] = EACCES
            /\ x.present /\ x.size = SizeofCtx
            /\ CreateError(arg[p].policy) = 0
            /\ x.ctx = BuildContext(arg[p].policy, capable, x.ctx.nonce)
            /\ is_encryption_context_consistent_with_policy(x.ctx, arg[p].policy, capable)

----------------------------------------------------------------------------
(* Properties of building and reporting a context *)

\* C12: get-policy that returns 0 reports the stored filename mode, flags and
\* descriptor; for a directory whose stored content mode is not invalid it
\* reports AES-256-XTS, never the hardware-private mode; for any other inode it
\* reports the stored content mode.
C12_DirectoryReportsStandardMode ==
    (last.op = "get_policy" /\ last.ret = 0) =>
        LET c == xattr[last.a].ctx
        IN  /\ xattr[last.a].size = SizeofCtx
            /\ last.policy.filenames_encryption_mode = c.filenames_encryption_mode
            /\ last.policy.flags = c.flags
            /\ last.policy.master_key_descriptor = c.master_key_descriptor
            /\ (i_mode[last.a] = "dir"
                /\ c.contents_encryption_mode # FS_ENCRYPTION_MODE_INVALID)
                 => /\ last.policy.contents_encryption_mode
                         = FS_ENCRYPTION_MODE_AES_256_XTS
                    /\ last.policy.contents_encryption_mode
                         # FS_ENCRYPTION_MODE_PRIVATE
            /\ i_mode[last.a] # "dir"
                 => last.policy.contents_encryption_mode = c.contents_encryption_mode

\* C12 witness: a directory storing the hardware-private mode was reported with
\* AES-256-XTS
C12_Witness ==
    /\ last.op = "get_policy" /\ last.ret = 0
    /\ i_mode[last.a] = "dir"
    /\ xattr[last.a].ctx.contents_encryption_mode = FS_ENCRYPTION_MODE_PRIVATE
    /\ last.policy.contents_encryption_mode = FS_ENCRYPTION_MODE_AES_256_XTS

\* C13 as stated: when set-policy gets to build the context of a policy with an
\* allowed mode pair and valid flags that carries IV_INO_LBLK_32, the policy is
\* rejected with -EINVAL exactly when the content mode fscrypt_data_crypt_mode
\* chooses for the inode is not hardware-private.
C13_FlagNeedsEffectivePrivate ==
    [][\A p \in Procs :
        LET i == arg[p].ino
            policy == arg[p].policy
        IN  ( /\ DecideStep(p) /\ ret[p] = ENODATA
              /\ i_mode[i] = "dir" /\ ~i_dead[i] /\ empty_dir(i)
              /\ fscrypt_valid_enc_modes(policy.contents_encryption_mode,
                                         policy.filenames_encryption_mode)
              /\ BitAnd(policy.flags, BitNot(FS_POLICY_FLAGS_VALID)) = 0
              /\ BitAnd(policy.flags, FS_POLICY_FLAG_IV_INO_LBLK_32) # 0 )
            => ( ret'[p] = EINVAL
                 <=> fscrypt_data_crypt_mode(capable, policy.contents_encryption_mode)
                       # FS_ENCRYPTION_MODE_PRIVATE )
      ]_vars

----------------------------------------------------------------------------
(* Properties of the block-request binder *)

\* C14 as stated: when the binder takes the hardware branch and the reference
\* to the resolved info comes back empty, the call returns an error, so no call
\* returns 0 leaving a request marked with an empty reference.
C14_EmptyReferenceFailsBind ==
    (last.op = "set_bio_ctx" /\ last.how = "bound" /\ bio.bc_info = 0)
        => last.ret < 0

\* C20: after a call of the binder with an inode and a request, the request is
\* marked for hardware crypto (BC_CRYPT, AES-256-XTS, its key size, the inode
\* number) exactly when fscrypt_is_hw_encrypt holds for the inode, and BC_CRYPT
\* is cleared otherwise; fscrypt_is_hw_encrypt and fscrypt_is_sw_encrypt never
\* both hold, and neither holds for an inode that is not a regular file or has
\* no i_crypt_info.
C20_MarkedIffHardwarePath ==
    /\ [][\A i \in Inodes :
            (last' # last /\ last'.op = "set_bio_ctx" /\ last'.a = i
             /\ last'.how # "null")
                => /\ bio'.bc_crypt <=> fscrypt_is_hw_encrypt(i)
                   /\ fscrypt_is_hw_encrypt(i)
                        => /\ last'.how = "bound"
                           /\ bio'.bc_aes_256_xts
                           /\ bio'.bc_key_size = FS_AES_256_XTS_KEY_SIZE
                           /\ bio'.bc_ino = i
                   /\ ~fscrypt_is_hw_encrypt(i)
                        => /\ last'.how = "cleared"
                           /\ bio' = [bio EXCEPT !.bc_crypt = FALSE]
      ]_vars
    /\ [](\A i \in Inodes :
            /\ ~(fscrypt_is_hw_encrypt(i) /\ fscrypt_is_sw_encrypt(i))
            /\ (i_mode[i] # "reg" \/ ~i_crypt_info[i].present)
                 => (~fscrypt_is_hw_encrypt(i) /\ ~fscrypt_is_sw_encrypt(i)))

\* C20 witness: a request that was marked for a regular file on the hardware
\* path is handed to the binder again after the file's resolved info was
\* dropped, and its BC_CRYPT flag is cleared
C20_Witness ==
    /\ last.op = "set_bio_ctx" /\ last.how = "cleared"
    /\ i_mode[last.a] = "reg" /\ ~i_crypt_info[last.a].present
    /\ bio.bc_ino = last.a /\ bio.bc_aes_256_xts
    /\ ~bio.bc_crypt

----------------------------------------------------------------------------
(* Properties of fscrypt_inherit_context *)

\* C15: when the parent has no resolved crypto info after resolving it, the
\* call returns -ENOKEY and writes no context; when persisting the child's
\* context fails, the call returns that error, stores nothing and attempts no
\* preload (the child's i_crypt_info stays NULL); when the context was persisted
\* and the preload fails, the call returns that error and the child's context
\* stays stored.
C15_InheritFailures ==
    [][\A parent, child \in Inodes, preload \in BOOLEAN, e \in InheritFailures :
          Inherit(parent, child, preload, TreeNonce, e) =>
             LET rp == fscrypt_get_encryption_info(i_crypt_info[parent],
                                                   xattr[parent],
                                                   e = "pio", e = "pfail")
             IN  /\ (rp.res = 0 /\ ~rp.ci.present)
                      => /\ last'.ret = ENOKEY
                         /\ xattr' = xattr
                         /\ ~i_crypt_info'[child].present
                 /\ (rp.res = 0 /\ rp.ci.present /\ e = "set")
                      => /\ last'.ret < 0
                         /\ xattr' = xattr
                         /\ ~i_crypt_info'[child].present
                 /\ (rp.res = 0 /\ rp.ci.present /\ preload /\ e \in {"cio", "cfail"})
                      => /\ last'.ret < 0
                         /\ xattr[child] = NoXattr
                         /\ xattr'[child].size = SizeofCtx
                         /\ xattr'[child].ctx = last'.ctx
                         /\ ~i_crypt_info'[child].present
      ]_vars

\* C15 witness: a call with preload returned an error from resolving the
\* child's info, and the child holds the context the call stored
C15_Witness ==
    /\ last.op = "inherit" /\ last.how = "preload-error" /\ last.ret < 0
    /\ xattr[last.b].size = SizeofCtx
    /\ xattr[last.b].ctx = last.ctx
    /\ ~i_crypt_info[last.b].present

\* C19: the context fscrypt_inherit_context stores on a child has the V1
\* format and the descriptor, content mode and filename mode of the parent's
\* resolved info; its flags are the parent's resolved flags, with the
\* IV_INO_LBLK_32 bit set in addition exactly when the content mode is the
\* hardware-private one and fscrypt_force_iv_ino_lblk_32() holds; no flag is
\* cleared and no other flag is set.
C19_InheritedContextFields ==
    [][\A child \in Inodes :
          (last' # last /\ last'.op = "inherit" /\ last'.b = child
           /\ xattr'[child] # xattr[child]) =>
             LET pci == i_crypt_info'[last'.a]
                 c == xattr'[child].ctx
                 forced == /\ pci.ci_data_mode = FS_ENCRYPTION_MODE_PRIVATE
                           /\ force_iv
             IN  /\ pci.present
                 /\ xattr'[child].size = SizeofCtx
                 /\ c.format = FS_ENCRYPTION_CONTEXT_FORMAT_V1
                 /\ c.master_key_descriptor = pci.ci_master_key_descriptor
                 /\ c.contents_encryption_mode = pci.ci_data_mode
                 /\ c.filenames_encryption_mode = pci.ci_filename_mode
                 /\ BitAnd(c.flags, BitNot(FS_POLICY_FLAG_IV_INO_LBLK_32))
                      = BitAnd(pci.ci_flags, BitNot(FS_POLICY_FLAG_IV_INO_LBLK_32))
                 /\ BitAnd(c.flags, FS_POLICY_FLAG_IV_INO_LBLK_32) # 0
                      <=> (BitAnd(pci.ci_flags, FS_POLICY_FLAG_IV_INO_LBLK_32) # 0
                           \/ forced)
      ]_vars

\* C19 witness: a child got the IV_INO_LBLK_32 bit that its directory's
\* resolved info and stored context lack
C19_Witness ==
    /\ last.op = "inherit" /\ last.how \in {"stored", "preloaded"}
    /\ i_crypt_info[last.a].present
    /\ BitAnd(i_crypt_info[last.a].ci_flags, FS_POLICY_FLAG_IV_INO_LBLK_32) = 0
    /\ BitAnd(xattr[last.a].ctx.flags, FS_POLICY_FLAG_IV_INO_LBLK_32) = 0
    /\ BitAnd(xattr[last.b].ctx.flags, FS_POLICY_FLAG_IV_INO_LBLK_32) # 0

----------------------------------------------------------------------------
(* Properties of the first cases of the permitted-context check *)

\* C18: the check decides these cases in this order, whatever the collaborators
\* would answer and leaving i_crypt_info of both inodes as it was: (1) a child
\* that is not a regular file, directory or symlink is permitted, also when the
\* parent is encrypted and the child is not; (2) otherwise, when the parent is
\* not encrypted, the child is permitted; (3) otherwise, when the child is not
\* encrypted, the child is forbidden.
C18_EarlyCasesInOrder ==
    /\ [][\A parent, child \in Inodes, e \in CheckFailures :
            HasPermittedContext(parent, child, e) =>
               LET typed == i_mode[child] \in {"reg", "dir", "lnk"}
               IN  /\ ~typed
                        => (last'.ret = 1 /\ i_crypt_info' = i_crypt_info)
                   /\ (typed /\ ~xattr[parent].present)
                        => (last'.ret = 1 /\ i_crypt_info' = i_crypt_info)
                   /\ (typed /\ xattr[parent].present /\ ~xattr[child].present)
                        => (last'.ret = 0 /\ i_crypt_info' = i_crypt_info)
      ]_vars
    /\ [](\A parent, child \in Inodes, e \in CheckFailures :
            ( /\ parent # child /\ i_mode[parent] = "dir" /\ i_mode[child] # "none"
              /\ \/ i_mode[child] \notin {"reg", "dir", "lnk"}
                 \/ ~xattr[parent].present
                 \/ ~xattr[child].present )
            => PermittedContext(parent, child, e)
                 = PermittedContext(parent, child, "none"))

\* C18 witness: an unencrypted inode that is neither a regular file, a
\* directory nor a symlink was permitted in an encrypted directory
C18_Witness ==
    /\ last.op = "permitted" /\ last.ret = 1
    /\ i_mode[last.b] = "fifo"
    /\ xattr[last.a].present /\ ~xattr[last.b].present

----------------------------------------------------------------------------
(* Properties of a tree under set-policy and creations *)

\* C17: after any sequence of set-policy calls and creations, every pair of a
\* directory that is encrypted and an inode directly below it that is a regular
\* file, a directory or a symlink passes the permitted-context check (all
\* collaborators answering).
C17_SetPolicyKeepsTreePermitted ==
    \A parent, child \in Inodes :
        ( /\ i_mode[child] \in {"reg", "dir", "lnk"}
          /\ i_parent[child] = parent
          /\ i_mode[parent] = "dir"
          /\ xattr[parent].present )
        => PermittedContext(parent, child, "none").ret = 1

\* C17 witness: a directory that inherited its context from its parent is
\* empty, and a set-policy call on it with a policy of other modes has returned
\* -EEXIST
C17_Witness ==
    \E p \in Procs, child \in Inodes :
        /\ pc[p] = "ret" /\ ret[p] = EEXIST /\ arg[p].ino = child
        /\ i_mode[child] = "dir" /\ empty_dir(child)
        /\ i_parent[child] # 0
        /\ xattr[i_parent[child]].present /\ xattr[child].present
        /\ arg[p].policy.filenames_encryption_mode
             # xattr[child].ctx.filenames_encryption_mode

====
